---------------------------- MODULE Spec2Model ----------------------------
(***************************************************************************)
(* A model of actix-actor-pool (src/src/lib.rs): Pool<A>, a fixed list of  *)
(* supervised actix actors behind a round-robin cursor.                    *)
(*                                                                         *)
(* Pool::new, next_worker, do_send and send are translated from lib.rs.    *)
(* The workers are the TestActor of the crate's test module: TestMessage   *)
(* is answered synchronously, FailMessage calls ctx.stop() and returns (). *)
(* What the actix calls do is the library's: Supervisor::start runs its    *)
(* FnOnce factory once and, each time the actor's context ends, restarts   *)
(* the same actor value on the same mailbox; Addr::send queues an envelope *)
(* carrying a one-shot reply sender; a handler's return value is written   *)
(* to that sender as soon as the handler returns.                          *)
(* A third message kind, "Slow", stands for a handler whose reply is       *)
(* produced later (Pool is generic over A: Handler<M>); the crate has no   *)
(* such handler, its behaviour is taken from the specification.            *)
(***************************************************************************)
EXTENDS Integers, Sequences, FiniteSets, TLC

VARIABLES
    constructed,  \* Pool::new has returned
    workers,      \* Pool.workers: the handles, in creation order
    current,      \* Pool.current: the AtomicUsize cursor
    initCalls,    \* how many times init_fn has been invoked
    name,         \* handle -> TestActor.name of the actor behind it
    mailbox,      \* handle -> queue of envelopes (call ids)
    status,       \* handle -> "running" | "stopping"
    held,         \* handle -> the call whose message the handler holds, if any
    stops,        \* handle -> how many times the actor's context ended
    calls,        \* the calls of send / do_send, in the order they began
    seq           \* no call began while an earlier one had not returned

vars == <<constructed, workers, current, initCalls, name, mailbox, status,
          held, stops, calls, seq>>

poolVars == <<constructed, workers, initCalls, name>>

----------------------------------------------------------------------------
(* Bounds of the model *)

MaxSize == 3

MaxCalls == 4

\* usize is 64 bits wide; the model counts in a narrower word
UsizeBits == 3

UsizeMod == 2 ^ UsizeBits

----------------------------------------------------------------------------
(* Values *)

Modes == {"send", "do_send"}

Kinds == {"Test", "Fail", "Slow"}

\* The messages callers pass: what do_send does with a message does not
\* depend on how its handler answers, so do_send is given Test and Fail
Messages == (Modes \X {"Test", "Fail"}) \cup {<<"send", "Slow">>}

Pending == [tag |-> "Pending", val |-> <<>>]

NoResult == [tag |-> "None", val |-> <<>>]

Err == [tag |-> "Err", val |-> <<>>]

Ok(v) == [tag |-> "Ok", val |-> v]

Handles == DOMAIN mailbox

CallIds == 1 .. Len(calls)

\* TestMessage(usize): every call carries a payload of its own
Payload(c) == 10 + c

----------------------------------------------------------------------------
(* Pool *)

FetchAddLost(cur) == cur

\* AtomicUsize::fetch_add(1, SeqCst): the new value of the cursor (wrapping)
FetchAdd(cur) == (cur + 1) % UsizeMod

IndexOfSkewed(cur, len) == (cur + 1) % len

IndexOfClamped(cur, len) == IF cur < len THEN cur ELSE len - 1

IndexOfOffByOne(cur, len) == cur % (len + 1)

\* next_worker: index = current % self.workers.len()
IndexOf(cur, len) == cur % len

\* next_worker: self.workers[index]
WorkerAt(cur) == workers[IndexOf(cur, Len(workers)) + 1]

\* Pool::new: current: Arc::new(AtomicUsize::new(0))
InitialCursor == 0

\* A call has returned to its caller
Returned(c) ==
    \/ calls[c].pc = "returned"
    \/ calls[c].pc = "panicked"
    \/ calls[c].pc = "awaiting" /\ calls[c].result.tag # "Pending"

Init ==
    /\ constructed = FALSE
    /\ workers = <<>>
    /\ current = 0
    /\ initCalls = 0
    /\ name = <<>>
    /\ mailbox = <<>>
    /\ status = <<>>
    /\ held = <<>>
    /\ stops = <<>>
    /\ calls = <<>>
    /\ seq = TRUE

CreatedHandlesReversed(size) == [i \in 1 .. size |-> size - i]

\* (0..size).map(..).collect(): the handle of the i-th worker created is the
\* i-th entry
CreatedHandles(size) == [i \in 1 .. size |-> i - 1]

\* Pool::new(size, init_fn): (0..size).map(|_| Supervisor::start(init_fn()))
New(size) ==
    /\ ~constructed
    /\ constructed' = TRUE
    /\ workers' = CreatedHandles(size)
    /\ current' = InitialCursor
    /\ initCalls' = size
    /\ name' = [w \in 0 .. size - 1 |-> w + 1]
    /\ mailbox' = [w \in 0 .. size - 1 |-> <<>>]
    /\ status' = [w \in 0 .. size - 1 |-> "running"]
    /\ held' = [w \in 0 .. size - 1 |-> <<>>]
    /\ stops' = [w \in 0 .. size - 1 |-> 0]
    /\ UNCHANGED <<calls, seq>>

\* A caller enters pool.send(msg) or pool.do_send(msg), whose first step is
\* next_worker: let current = self.current.fetch_add(1, Ordering::SeqCst);
\* the model follows no more than max calls
FetchUpTo(mode, kind, max) ==
    /\ constructed
    /\ Len(calls) < max
    /\ calls' = Append(calls, [mode |-> mode, kind |-> kind, pc |-> "fetched",
                               cur |-> current, target |-> -1,
                               env |-> "none", stopsAtEnq |-> 0,
                               result |-> IF mode = "send" THEN Pending
                                          ELSE NoResult])
    /\ current' = FetchAdd(current)
    /\ seq' = (seq /\ \A c \in CallIds : Returned(c))
    /\ UNCHANGED <<poolVars, mailbox, status, held, stops>>

Fetch(mode, kind) == FetchUpTo(mode, kind, MaxCalls)

\* next_worker on an empty list: current % 0 panics
PanicRemZero(c) ==
    /\ calls[c].pc = "fetched"
    /\ Len(workers) = 0
    /\ calls' = [calls EXCEPT ![c].pc = "panicked"]
    /\ UNCHANGED <<poolVars, current, mailbox, status, held, stops, seq>>

MailboxClosedByStop(w) == stops[w] = 0

\* The mailbox of a supervised actor accepts messages for as long as the
\* Pool holds its Addr, whether the actor runs or is being restarted
MailboxOpen(w) == TRUE

DoSendAwaits == "awaiting"

\* do_send returns once the message is handed over
DoSendPc == "returned"

WorkersRotated(ws, index) == Tail(ws) \o <<Head(ws)>>

\* next_worker: self.workers[index].clone() leaves the list as it is
WorkersAfterClone(ws, index) == ws

PushTwice(q, c) == Append(Append(q, c), c)

PushFront(q, c) == <<c>> \o q

PushLost(q, c) == q

\* The envelope of call c joins the mailbox q at its end
Push(q, c) == Append(q, c)

\* The rest of next_worker and the hand-over to the selected worker's Addr:
\* the envelope is pushed on its mailbox; a closed mailbox refuses it, which
\* send reports as MailboxError and do_send ignores
Enqueue(c, pc) ==
    /\ calls[c].pc = "fetched"
    /\ Len(workers) > 0
    /\ workers' = WorkersAfterClone(workers, IndexOf(calls[c].cur, Len(workers)))
    /\ LET w == WorkerAt(calls[c].cur) IN
        IF MailboxOpen(w)
        THEN /\ mailbox' = [mailbox EXCEPT ![w] = Push(@, c)]
             /\ calls' = [calls EXCEPT ![c].pc = pc, ![c].target = w,
                                       ![c].env = "queued",
                                       ![c].stopsAtEnq = stops[w]]
        ELSE /\ mailbox' = mailbox
             /\ calls' = [calls EXCEPT ![c].pc = pc, ![c].target = w,
                                       ![c].env = "refused",
                                       ![c].stopsAtEnq = stops[w],
                                       ![c].result =
                                           IF calls[c].mode = "send"
                                           THEN Err ELSE @]
    /\ UNCHANGED <<constructed, initCalls, name, current, status, held,
                   stops, seq>>

\* do_send: let actor = self.next_worker(); actor.do_send(msg);
DoSend(c) ==
    /\ calls[c].mode = "do_send"
    /\ Enqueue(c, DoSendPc)

SendTimesOut(c) ==
    /\ calls[c].mode = "send"
    /\ calls[c].pc = "fetched"
    /\ Len(workers) > 0
    /\ LET w == WorkerAt(calls[c].cur) IN
        /\ mailbox' = [mailbox EXCEPT ![w] = Push(@, c)]
        /\ calls' = [calls EXCEPT ![c].pc = "awaiting", ![c].target = w,
                                  ![c].env = "queued",
                                  ![c].stopsAtEnq = stops[w],
                                  ![c].result = Err]
    /\ UNCHANGED <<poolVars, current, status, held, stops, seq>>

\* send: let actor = self.next_worker(); actor.send(msg).await
Send(c) ==
    /\ calls[c].mode = "send"
    /\ Enqueue(c, "awaiting")

----------------------------------------------------------------------------
(* Workers *)

ReplyValueStale(nm, payload) == <<nm, Payload(1)>>

\* format!("...: {}-{}", self.name, msg.0)
ReplyValue(nm, payload) == <<nm, payload>>

SenderDroppedHangs == Pending

\* What an awaiting send sees when its reply sender is dropped unanswered
SenderDropped == Err

SendResultSwallowed(r) == IF r.tag = "Err" THEN Ok(<<>>) ELSE r

\* send returns what actor.send(msg).await yields, as it is
SendResult(r) == r

\* The envelope of call c leaves the worker as e; r is written to its reply
\* sender, which only the envelope of a send has
Resolve(cs, c, e, r) ==
    [cs EXCEPT ![c].env = e,
               ![c].result = IF cs[c].mode = "send" THEN SendResult(r)
                                 ELSE @]

\* A worker takes the next envelope when it runs and holds no message
CanTake(w, kind) ==
    /\ status[w] = "running"
    /\ held[w] = <<>>
    /\ mailbox[w] # <<>>
    /\ calls[Head(mailbox[w])].kind = kind

\* Handler<TestMessage>::handle
HandleTest(w) ==
    /\ CanTake(w, "Test")
    /\ LET c == Head(mailbox[w]) IN
        calls' = Resolve(calls, c, "handled",
                         Ok(ReplyValue(name[w], Payload(c))))
    /\ mailbox' = [mailbox EXCEPT ![w] = Tail(@)]
    /\ UNCHANGED <<poolVars, current, status, held, stops, seq>>

FailReplyLost == Err

\* Handler<FailMessage>::handle returns (), which is the reply
FailReply == Ok(<<>>)

\* Handler<FailMessage>::handle: ctx.stop(), and () is the reply
HandleFail(w) ==
    /\ CanTake(w, "Fail")
    /\ calls' = Resolve(calls, Head(mailbox[w]), "handled", FailReply)
    /\ mailbox' = [mailbox EXCEPT ![w] = Tail(@)]
    /\ status' = [status EXCEPT ![w] = "stopping"]
    /\ stops' = [stops EXCEPT ![w] = @ + 1]
    /\ UNCHANGED <<poolVars, current, held, seq>>

\* A handler that answers later takes its message
HandleSlow(w) ==
    /\ CanTake(w, "Slow")
    /\ held' = [held EXCEPT ![w] = <<Head(mailbox[w])>>]
    /\ calls' = [calls EXCEPT ![Head(mailbox[w])].env = "held"]
    /\ mailbox' = [mailbox EXCEPT ![w] = Tail(@)]
    /\ UNCHANGED <<poolVars, current, status, stops, seq>>

\* ... and produces its reply
ReplyHeld(w) ==
    /\ status[w] = "running"
    /\ held[w] # <<>>
    /\ calls' = Resolve(calls, held[w][1], "handled",
                        Ok(ReplyValue(name[w], Payload(held[w][1]))))
    /\ held' = [held EXCEPT ![w] = <<>>]
    /\ UNCHANGED <<poolVars, current, mailbox, status, stops, seq>>

\* ... or the worker terminates with the message in hand: the reply sender
\* is dropped unanswered
CrashHeld(w) ==
    /\ status[w] = "running"
    /\ held[w] # <<>>
    /\ calls' = Resolve(calls, held[w][1], "dropped", SenderDropped)
    /\ held' = [held EXCEPT ![w] = <<>>]
    /\ status' = [status EXCEPT ![w] = "stopping"]
    /\ stops' = [stops EXCEPT ![w] = @ + 1]
    /\ UNCHANGED <<poolVars, current, mailbox, seq>>

MailboxDropped(q) == <<>>

\* The envelopes a worker's mailbox still holds after its context ended:
\* the supervisor restarts the actor on the same mailbox
SurvivingMailbox(q) == q

RECURSIVE DropAll(_, _)
\* The envelopes of q are dropped, their reply senders with them
DropAll(cs, q) ==
    IF q = <<>> THEN cs
    ELSE DropAll(Resolve(cs, Head(q), "dropped", SenderDropped), Tail(q))

RestartedFresh(nm, n) == <<n + 1, n + 1>>

\* The actor a restart runs and the number of init_fn invocations after it:
\* Supervisor::start consumed its factory (move |_| init_fn(), an FnOnce) when
\* the worker was created, so the restart runs the actor value it already has
Restarted(nm, n) == <<nm, n>>

\* Supervisor: the context ended, and the same actor value is started again
\* (Supervised::restarting) on the same mailbox
Restart(w) ==
    /\ status[w] = "stopping"
    /\ status' = [status EXCEPT ![w] = "running"]
    /\ LET kept == SurvivingMailbox(mailbox[w]) IN
        /\ mailbox' = [mailbox EXCEPT ![w] = kept]
        /\ calls' = IF kept = mailbox[w] THEN calls
                    ELSE DropAll(calls, mailbox[w])
    /\ name' = [name EXCEPT ![w] = Restarted(@, initCalls)[1]]
    /\ initCalls' = Restarted(name[w], initCalls)[2]
    /\ UNCHANGED <<constructed, workers, current, held, stops, seq>>

----------------------------------------------------------------------------

Next ==
    \/ \E size \in 0 .. MaxSize : New(size)
    \/ \E m \in Messages : Fetch(m[1], m[2])
    \/ \E c \in CallIds : PanicRemZero(c)
    \/ \E c \in CallIds : DoSend(c)
    \/ \E c \in CallIds : Send(c)
    \/ \E w \in Handles : HandleTest(w)
    \/ \E w \in Handles : HandleFail(w)
    \/ \E w \in Handles : HandleSlow(w)
    \/ \E w \in Handles : ReplyHeld(w)
    \/ \E w \in Handles : CrashHeld(w)
    \/ \E w \in Handles : Restart(w)

Spec == Init /\ [][Next]_vars

\* The worker behind handle w is scheduled: it takes and answers messages
\* and is restarted; that it terminates with a message in hand is up to it
WorkerStep(w) ==
    /\ w \in Handles
    /\ \/ HandleTest(w)
       \/ HandleFail(w)
       \/ HandleSlow(w)
       \/ ReplyHeld(w)
       \/ Restart(w)

\* A caller that has fetched its cursor value goes on to hand its message over
CallerStep == \E c \in CallIds : DoSend(c) \/ Send(c)

\* The pools of one worker
NextOne ==
    \/ New(1)
    \/ \E m \in Messages : Fetch(m[1], m[2])
    \/ \E c \in CallIds : DoSend(c)
    \/ \E c \in CallIds : Send(c)
    \/ \E w \in Handles : HandleTest(w)
    \/ \E w \in Handles : HandleFail(w)
    \/ \E w \in Handles : HandleSlow(w)
    \/ \E w \in Handles : ReplyHeld(w)
    \/ \E w \in Handles : CrashHeld(w)
    \/ \E w \in Handles : Restart(w)

\* ... with callers and worker scheduled
FairSpecOne ==
    /\ Init
    /\ [][NextOne]_vars
    /\ WF_vars(CallerStep)
    /\ WF_vars(WorkerStep(0))

\* Callers that keep calling until the cursor has wrapped around: Test
\* messages, no more than MaxInFlight calls under way at a time
MaxInFlight == 2

MaxWrapCalls == UsizeMod + 1

InFlight == Cardinality({c \in CallIds : ~Returned(c)})

FetchWrap(mode) ==
    /\ InFlight < MaxInFlight
    /\ FetchUpTo(mode, "Test", MaxWrapCalls)

NextWrap ==
    \/ \E size \in 1 .. MaxSize : New(size)
    \/ \E mode \in Modes : FetchWrap(mode)
    \/ \E c \in CallIds : DoSend(c)
    \/ \E c \in CallIds : Send(c)
    \/ \E w \in Handles : HandleTest(w)

SpecWrap == Init /\ [][NextWrap]_vars

\* The messages whose handlers do not end the worker
CalmMessages == {<<"send", "Test">>, <<"send", "Slow">>, <<"do_send", "Test">>}

\* A worker that keeps processing its mailbox: it takes the next message and
\* answers the one it holds
CalmWorkerStep(w) ==
    /\ w \in Handles
    /\ \/ HandleTest(w)
       \/ HandleSlow(w)
       \/ ReplyHeld(w)

\* Pools none of whose workers ever terminates
NextCalm ==
    \/ \E size \in 1 .. MaxSize : New(size)
    \/ \E m \in CalmMessages : Fetch(m[1], m[2])
    \/ \E c \in CallIds : DoSend(c)
    \/ \E c \in CallIds : Send(c)
    \/ \E w \in Handles : HandleTest(w)
    \/ \E w \in Handles : HandleSlow(w)
    \/ \E w \in Handles : ReplyHeld(w)

\* ... with callers and every worker scheduled
FairSpecCalm ==
    /\ Init
    /\ [][NextCalm]_vars
    /\ WF_vars(CallerStep)
    /\ \A w \in 0 .. MaxSize - 1 : WF_vars(CalmWorkerStep(w))

TypeOK ==
    /\ constructed \in BOOLEAN
    /\ current \in 0 .. UsizeMod - 1
    /\ Len(calls) <= MaxCalls
    /\ \A w \in Handles : status[w] \in {"running", "stopping"}
    /\ \A w \in Handles : Len(held[w]) <= 1
    /\ \A c \in CallIds :
           /\ calls[c].mode \in Modes
           /\ calls[c].kind \in Kinds
           /\ calls[c].result.tag \in {"Pending", "None", "Ok", "Err"}

----------------------------------------------------------------------------
(* Properties *)

Size == Len(workers)

\* The calls whose message has been handed to a worker's Addr
Placed == {c \in CallIds : calls[c].target >= 0}

IsSend(c) == calls[c].mode = "send"

Resolved(c) == IsSend(c) /\ calls[c].result.tag # "Pending"

\* The envelope of call c waits in the mailbox of the worker it went to
Queued(c) ==
    /\ calls[c].env = "queued"
    /\ \E i \in DOMAIN mailbox[calls[c].target] :
           mailbox[calls[c].target][i] = c

\* The reply the worker behind handle w gives to the message of call c
ReplyOf(w, c) ==
    IF calls[c].kind = "Fail" THEN Ok(<<>>)
    ELSE Ok(<<name[w], 10 + c>>)

\* C1: on a pool of size S >= 1, calls of send and do_send (in any mix)
\* issued one after another, each after the one before it returned, select
\* the workers 0, 1, ..., S-1, 0, 1, ... in that order, so that after k*S
\* calls every worker has been selected exactly k times.
C1_RoundRobinSequential ==
    (seq /\ Size >= 1) =>
        /\ \A c \in Placed : calls[c].target = (c - 1) % Size
        /\ (Placed = CallIds /\ Len(calls) % Size = 0) =>
               \A w \in Handles :
                   Cardinality({c \in Placed : calls[c].target = w})
                       = Len(calls) \div Size

C1_Witness ==
    /\ seq
    /\ Size = 2
    /\ Len(calls) = 4
    /\ Placed = CallIds
    /\ \E c, d \in CallIds : calls[c].mode = "send" /\ calls[d].mode = "do_send"
    /\ \A w \in Handles : Cardinality({c \in Placed : calls[c].target = w}) = 2

\* C2: the cursor values fetched by the calls made so far, however the
\* callers interleave, are pairwise distinct, and the cursor has advanced by
\* exactly one per call, whichever delivery mode the call uses.
C2_DistinctCursorValues ==
    Len(calls) < UsizeMod =>
        /\ \A c, d \in CallIds : c # d => calls[c].cur # calls[d].cur
        /\ current = Len(calls)

C2_Witness ==
    /\ ~seq
    /\ Len(calls) = 3
    /\ Cardinality({c \in CallIds : calls[c].pc = "fetched"}) >= 2
    /\ \E c, d \in CallIds : calls[c].mode = "send" /\ calls[d].mode = "do_send"
    /\ {calls[c].cur : c \in CallIds} = {0, 1, 2}

\* C3: when k*S calls made concurrently on a fresh pool of size S have all
\* been handed to their workers, every worker is the target of exactly k of
\* them, in whatever order the callers ran.
C3_BalancedLoad ==
    (Size >= 1 /\ Placed = CallIds /\ Len(calls) % Size = 0) =>
        \A w \in Handles :
            Cardinality({c \in CallIds : calls[c].target = w})
                = Len(calls) \div Size

C3_Witness ==
    /\ ~seq
    /\ Size = 2
    /\ Len(calls) = 4
    /\ \A c \in CallIds : IsSend(c) /\ calls[c].kind = "Test"
    /\ mailbox[0] = <<3, 1>>
    /\ mailbox[1] = <<4, 2>>

\* C4: a send of an ordinary message (TestMessage) routed to a worker that
\* has terminated before (once or several times) is never answered with an
\* error: its envelope waits in that worker's mailbox until the restarted
\* worker handles it, and the call then returns Ok with that worker's reply.
C4_RestartTransparent ==
    \A c \in Placed :
        (IsSend(c) /\ calls[c].kind = "Test" /\ calls[c].stopsAtEnq >= 1) =>
            \/ calls[c].result = Pending /\ Queued(c)
            \/ /\ calls[c].result = ReplyOf(calls[c].target, c)
               /\ calls[c].env = "handled"

C4_Witness ==
    \E c \in Placed :
        /\ IsSend(c) /\ calls[c].kind = "Test"
        /\ calls[c].stopsAtEnq >= 2
        /\ calls[c].result.tag = "Ok"

\* C5: a send whose message the worker had taken, and not yet answered, when
\* the worker terminated has resolved to Err: it is neither left pending nor
\* answered Ok.
C5_CrashInFlightFails ==
    \A c \in CallIds :
        (IsSend(c) /\ calls[c].env = "dropped") => calls[c].result = Err

C5_Witness ==
    \E c \in CallIds :
        /\ IsSend(c)
        /\ calls[c].env = "dropped"
        /\ calls[c].result = Err
        /\ status[calls[c].target] = "running"
        /\ stops[calls[c].target] = 1

\* C6: a do_send that has selected its worker has returned to the caller,
\* with nothing reported, whether the message is still queued, was handled,
\* or sits in the mailbox of a worker that has terminated in the meantime.
C6_DoSendFireAndForget ==
    \A c \in Placed :
        calls[c].mode = "do_send" =>
            /\ calls[c].pc = "returned"
            /\ calls[c].result = NoResult

C6_Witness ==
    \E c \in Placed :
        /\ calls[c].mode = "do_send"
        /\ calls[c].pc = "returned"
        /\ Queued(c)
        /\ status[calls[c].target] = "stopping"
        /\ calls[c].stopsAtEnq = 0

\* C7: Pool::new(0, init_fn) is rejected: no pool without workers exists,
\* so no send or do_send fails with a remainder by zero in next_worker.
C7_SizeZeroRejected ==
    /\ constructed => Size >= 1
    /\ \A c \in CallIds : calls[c].pc # "panicked"

\* The scenario of C8: a pool of one worker, do_send of FailMessage, then a
\* send of TestMessage
Scenario8 ==
    IF Size = 1 /\ Len(calls) >= 2
    THEN /\ calls[1].mode = "do_send" /\ calls[1].kind = "Fail"
         /\ calls[2].mode = "send" /\ calls[2].kind = "Test"
    ELSE FALSE

\* The send of the scenario has returned Ok with the worker's reply
Answered8 ==
    IF Scenario8 THEN calls[2].result = ReplyOf(0, 2) ELSE FALSE

\* Until the worker handles it the envelope of the send is in the mailbox and
\* the send is pending; then the send holds the worker's Ok reply, and when
\* the send was issued after the do_send returned, the worker has terminated
\* before it produced that reply
Safe8 ==
    (Scenario8 /\ 2 \in Placed) =>
        \/ calls[2].result = Pending /\ Queued(2)
        \/ /\ calls[2].result = ReplyOf(0, 2)
           /\ calls[2].env = "handled"
           /\ seq => stops[0] >= 1

\* C8: on a pool of one worker, after a do_send of a message that makes the
\* worker terminate, a send of an ordinary message is never answered with an
\* error and, the worker and the caller being scheduled, it does return Ok
\* with the worker's reply, in every interleaving of the worker's termination
\* and restart with the enqueueing of the second message.
C8_CrashThenRequest == []Safe8 /\ (Scenario8 ~> Answered8)

C8_Witness ==
    /\ Scenario8
    /\ seq
    /\ calls[2].result = ReplyOf(0, 2)
    /\ calls[2].stopsAtEnq = 0
    /\ stops[0] = 1

\* The scenario of C9: a pool of two workers and alternating sends, so that
\* worker 0 gets only FailMessage (it terminates on every message) and
\* worker 1 only TestMessage
Scenario9 ==
    /\ Size = 2
    /\ \A c \in CallIds :
           /\ IsSend(c)
           /\ calls[c].kind = IF (c - 1) % 2 = 0 THEN "Fail" ELSE "Test"

C10_NoCrossTalk ==
    \A c \in CallIds :
        (IsSend(c) /\ calls[c].result.tag = "Ok") =>
            /\ calls[c].env = "handled"
            /\ calls[c].result = ReplyOf(calls[c].target, c)
            /\ \A d \in CallIds :
                   (d # c /\ calls[d].kind # "Fail" /\ calls[c].kind # "Fail")
                       => calls[d].result # calls[c].result

C10_Witness ==
    /\ ~seq
    /\ \E c, d \in CallIds :
           /\ c < d
           /\ IsSend(c) /\ IsSend(d)
           /\ calls[c].kind = "Test" /\ calls[d].kind = "Slow"
           /\ calls[c].target = calls[d].target
           /\ calls[c].result.tag = "Ok" /\ calls[d].result.tag = "Ok"
           /\ calls[d].pc = "awaiting" /\ calls[c].stopsAtEnq = 0


\* The places the envelope of call c sits in: mailbox slots and handlers
Copies(c) ==
    Cardinality(UNION {{<<w, i>> : i \in {j \in DOMAIN mailbox[w] :
                                              mailbox[w][j] = c}} :
                       w \in Handles})
    + Cardinality({w \in Handles : held[w] = <<c>>})

\* Where the envelope of every call is: nowhere before the hand-over, in the
\* mailbox of the worker its call selected, with that worker's handler, or gone
AtMostOnePlace11 ==
    \A c \in CallIds :
        /\ Copies(c) <= 1
        /\ calls[c].target >= 0 =>
               calls[c].target = workers[(calls[c].cur % Size) + 1]
        /\ calls[c].env = "queued" =>
               \E i \in DOMAIN mailbox[calls[c].target] :
                   mailbox[calls[c].target][i] = c
        /\ calls[c].env = "held" => held[calls[c].target] = <<c>>
        /\ calls[c].env \in {"none", "refused", "handled", "dropped"} =>
               Copies(c) = 0
        /\ (calls[c].env = "dropped" /\ IsSend(c)) => calls[c].result = Err

\* An envelope that was handled or dropped stays so, one a handler took never
\* returns to a mailbox, and a call never changes its worker
NoRedelivery11 ==
    \A c \in CallIds :
        /\ calls[c].env \in {"refused", "handled", "dropped"} =>
               calls'[c].env = calls[c].env
        /\ calls[c].env = "held" =>
               calls'[c].env \in {"held", "handled", "dropped"}
        /\ calls[c].target >= 0 => calls'[c].target = calls[c].target

\* C11: a message is enqueued to the one worker its call selected and is
\* handled at most once; a message lost with a terminating worker is not
\* delivered again, to the restarted worker or to another one, and its send
\* fails
C11_AtMostOnce == []AtMostOnePlace11 /\ [][NoRedelivery11]_vars

\* A worker terminated holding the message of a send, which failed; it was
\* restarted and has handled a message enqueued after that
C11_Witness ==
    \E c \in CallIds, d \in CallIds :
        /\ IsSend(c)
        /\ calls[c].env = "dropped"
        /\ calls[c].kind = "Slow"
        /\ calls[c].result = Err
        /\ calls[d].target = calls[c].target
        /\ calls[d].env = "handled"
        /\ calls[d].stopsAtEnq >= 1
        /\ status[calls[c].target] = "running"


OneOutcome13 ==
    \A c \in CallIds :
        IsSend(c) =>
            /\ calls[c].result.tag \in {"Pending", "Ok", "Err"}
            /\ calls[c].result.tag = "Pending" =>
                   calls[c].env \in {"none", "queued", "held"}
            /\ calls[c].result.tag = "Ok" =>
                   /\ calls[c].env = "handled"
                   /\ calls[c].result = ReplyOf(calls[c].target, c)
            /\ calls[c].result.tag = "Err" =>
                   /\ calls[c].env = "dropped"
                   /\ stops[calls[c].target] >= 1

\* A send that has resolved keeps its outcome
ResolvedOnce13 ==
    \A c \in CallIds :
        (IsSend(c) /\ calls[c].result.tag # "Pending") =>
            calls'[c].result = calls[c].result

\* C13: a send resolves at most once, to Ok(reply) or to Err; Err only when
\* its worker terminated before replying, and Ok carries the handler's value
\* as it is
C13_ExactlyOneOutcome == []OneOutcome13 /\ [][ResolvedOnce13]_vars

\* One send was answered, another failed with its worker, and both outcomes
\* are still there after that worker was restarted and took a later message
C13_Witness ==
    \E c \in CallIds, d \in CallIds, e \in CallIds :
        /\ IsSend(c) /\ calls[c].kind = "Test" /\ calls[c].result.tag = "Ok"
        /\ IsSend(d) /\ calls[d].result = Err
        /\ calls[e].target = calls[d].target
        /\ calls[e].stopsAtEnq >= 1
        /\ calls[e].env = "handled"


\* The handle list as Pool::new built it
CreationOrder14 ==
    constructed =>
        /\ Len(workers) = initCalls
        /\ \A i \in 1 .. Len(workers) : workers[i] = i - 1
        /\ Handles = {workers[i] : i \in 1 .. Len(workers)}

\* After construction no step touches the pool's fields other than the cursor
FrameOfPool14 ==
    constructed =>
        /\ workers' = workers
        /\ constructed'
        /\ DOMAIN mailbox' = DOMAIN mailbox
        /\ current' # current =>
               /\ Len(calls') = Len(calls) + 1
               /\ current' = (current + 1) % UsizeMod

\* C14: once Pool::new(size, init_fn) has returned, the handle list has size
\* entries in creation order, no send, do_send, termination or restart adds,
\* removes, reorders or replaces an entry, and the cursor is the only pool
\* state a call changes
C14_FixedHandleList == []CreationOrder14 /\ [][FrameOfPool14]_vars

\* A pool of several workers after calls of both kinds went through it and a
\* worker terminated and was restarted
C14_Witness ==
    /\ Len(workers) >= 2
    /\ \E c \in Placed : calls[c].mode = "send" /\ calls[c].env = "handled"
    /\ \E c \in Placed : calls[c].mode = "do_send" /\ calls[c].env = "handled"
    /\ \E w \in Handles : stops[w] >= 1 /\ status[w] = "running"


\* C15 as stated: of two calls with consecutive cursor values, the pair
\* straddling the wraparound of the cursor included, the later one selects
\* the index after the earlier one's, cyclically
C15_CyclicAcrossWraparound ==
    \A c \in Placed, d \in Placed :
        calls[d].cur = (calls[c].cur + 1) % UsizeMod =>
            calls[d].target = (calls[c].target + 1) % Size


\* A step changes a mailbox at its two ends only: a call's envelope joins at
\* the end, the worker takes the one at the head, and it takes one only when
\* it holds none
FifoStep16 ==
    /\ \A w \in Handles :
           mailbox'[w] # mailbox[w] =>
               \/ \E c \in 1 .. Len(calls') :
                      /\ mailbox'[w] = Append(mailbox[w], c)
                      /\ calls[c].env = "none"
                      /\ calls'[c].env = "queued"
               \/ /\ mailbox[w] # <<>>
                  /\ mailbox'[w] = Tail(mailbox[w])
                  /\ calls'[Head(mailbox[w])].env \in {"held", "handled"}
                  /\ held[w] = <<>>
    /\ \A c \in CallIds :
           (calls[c].env = "queued" /\ calls'[c].env # "queued") =>
               /\ c = Head(mailbox[calls[c].target])
               /\ held[calls[c].target] = <<>>
               /\ calls'[c].env \in {"held", "handled"}

\* Calls made one after the other: of two that selected the same worker
\* (n and n + size among them) the later is not taken before the earlier is
\* done with
SequentialOrder16 ==
    seq =>
        \A c \in Placed, d \in Placed :
            (c < d /\ calls[c].target = calls[d].target) =>
                /\ (d - c) % Size = 0
                /\ calls[d].env \in {"held", "handled", "dropped"} =>
                       calls[c].env \in {"handled", "dropped"}

\* C16: a worker handles the messages enqueued to it in the order they were
\* enqueued, one at a time to completion; for a caller calling sequentially
\* messages n and n + size are handled in that order
C16_PerWorkerFifo == []SequentialOrder16 /\ [][FifoStep16]_vars

\* Sequential calls on a pool of two workers: messages 1 and 3 went through
\* the first worker in that order, while message 2, enqueued to the second
\* worker before message 3 was enqueued to the first, still waits there, ahead
\* of message 4
C16_Witness ==
    /\ seq
    /\ Size = 2
    /\ Len(calls) = 4
    /\ calls[1].env = "handled" /\ calls[3].env = "handled"
    /\ calls[1].target = calls[3].target
    /\ calls[2].env = "queued"
    /\ mailbox[calls[2].target] = <<2, 4>>


\* Call c is a send that has fetched its cursor value
Issued17(c) == IF c \in CallIds THEN IsSend(c) ELSE FALSE

\* ... and it has returned Ok with the reply of the worker it selected
ReturnedOk17(c) ==
    IF c \in CallIds
    THEN /\ IsSend(c)
         /\ calls[c].env = "handled"
         /\ calls[c].result = ReplyOf(calls[c].target, c)
    ELSE FALSE

\* No send has failed
NoErr17 == \A c \in CallIds : calls[c].result.tag # "Err"

\* C17: when no worker terminates and every worker keeps processing its
\* mailbox, every send of any number of concurrent callers eventually
\* returns Ok(reply)
C17_LivenessWithoutCrashes ==
    /\ []NoErr17
    /\ \A c \in 1 .. MaxCalls : Issued17(c) ~> ReturnedOk17(c)

\* Concurrent callers on a pool of several workers, all of them sends, one
\* of them to a handler answering later, and every one has returned Ok
C17_Witness ==
    /\ ~seq
    /\ Size >= 2
    /\ Len(calls) = MaxCalls
    /\ \A c \in CallIds : ReturnedOk17(c)
    /\ \E c \in CallIds : calls[c].kind = "Slow"


\* A send is pending for as long as its envelope waits or is with the handler
PendingWhileUnanswered18 ==
    \A c \in CallIds :
        IsSend(c) =>
            /\ calls[c].env \in {"none", "queued", "held"} =>
                   calls[c].result = Pending
            /\ calls[c].result # Pending =>
                   calls[c].env \in {"handled", "dropped"}

\* A pending send is resolved only by its own worker, answering or dropping
\* the envelope; a step in which that worker neither answers the message it
\* holds nor terminates leaves the send as it is; no step gives a call
\* another worker
OnlyTheWorkerResolves18 ==
    \A c \in CallIds :
        (IsSend(c) /\ calls[c].result = Pending) =>
            /\ calls'[c].result # Pending =>
                   /\ calls[c].env \in {"queued", "held"}
                   /\ calls'[c].env \in {"handled", "dropped"}
                   /\ \/ /\ held'[calls[c].target] # held[calls[c].target]
                         /\ held[calls[c].target] = <<c>>
                      \/ /\ mailbox[calls[c].target] # <<>>
                         /\ Head(mailbox[calls[c].target]) = c
                         /\ mailbox'[calls[c].target] =
                                Tail(mailbox[calls[c].target])
            /\ (calls[c].env = "held"
                    /\ held'[calls[c].target] = held[calls[c].target]
                    /\ stops'[calls[c].target] = stops[calls[c].target]) =>
                   calls'[c] = calls[c]
            /\ calls[c].target >= 0 => calls'[c].target = calls[c].target

\* C18: a send whose worker neither replies nor terminates stays pending; the
\* pool resolves no pending send by timeout, cancellation or rerouting
C18_NoTimeout == []PendingWhileUnanswered18 /\ [][OnlyTheWorkerResolves18]_vars

\* A worker sits on the message of a send that is still pending after every
\* other call of the run, made on a pool of several workers, has returned
C18_Witness ==
    /\ Size >= 2
    /\ Len(calls) = MaxCalls
    /\ \E c \in CallIds :
           /\ IsSend(c)
           /\ calls[c].env = "held"
           /\ calls[c].result = Pending
           /\ held[calls[c].target] = <<c>>
           /\ \A d \in CallIds \ {c} : Returned(d) /\ d \in Placed
           /\ \E d \in CallIds : d > c /\ calls[d].env = "handled"


\* C19: when Pool::new(size, init_fn) has returned, init_fn has been invoked
\* size times, once per worker, every worker runs behind its handle, the
\* handles are stored in creation order, and the cursor started at 0, so
\* that the first call selects index 0
C19_EagerConstruction ==
    /\ ~constructed => (initCalls = 0 /\ workers = <<>>)
    /\ constructed =>
           /\ initCalls = Len(workers)
           /\ DOMAIN status = {i - 1 : i \in 1 .. Len(workers)}
           /\ \A i \in 1 .. Len(workers) :
                  /\ workers[i] = i - 1
                  /\ name[workers[i]] = i
           /\ calls = <<>> => current = 0
           /\ calls # <<>> => calls[1].cur = 0
           /\ 1 \in Placed =>
                  /\ calls[1].target = workers[1]
                  /\ calls[1].target = 0

\* The first call on a pool of several workers was answered by the worker
\* created first
C19_Witness ==
    /\ Len(workers) = MaxSize
    /\ initCalls = MaxSize
    /\ 1 \in Placed
    /\ calls[1].mode = "send"
    /\ calls[1].kind = "Test"
    /\ calls[1].result = Ok(<<1, 11>>)


\* C20: on a pool of at least one worker, the index next_worker computes
\* from any cursor value is within the handle list
C20_IndexInBounds ==
    Size >= 1 =>
        /\ IndexOf(current, Size) \in 0 .. Size - 1
        /\ \A c \in CallIds :
               /\ IndexOf(calls[c].cur, Size) \in 0 .. Size - 1
               /\ IndexOf(calls[c].cur, Size) + 1 \in DOMAIN workers
               /\ c \in Placed =>
                      /\ calls[c].target \in Handles
                      /\ calls[c].target =
                             workers[IndexOf(calls[c].cur, Size) + 1]

\* Calls of both kinds have used every value of the cursor and, after its
\* wraparound, the first one again, on a pool whose size does not divide the
\* number of cursor values
C20_Witness ==
    /\ Size = 3
    /\ current = 1
    /\ Len(calls) = UsizeMod + 1
    /\ \A v \in 0 .. UsizeMod - 1 : \E c \in Placed : calls[c].cur = v
    /\ calls[Len(calls)].cur = 0
    /\ Len(calls) \in Placed
    /\ \E c \in Placed : calls[c].mode = "send"
    /\ \E c \in Placed : calls[c].mode = "do_send"

=============================================================================
